---- MODULE Spec2Model ----
(***************************************************************************)
(* Model of ezemuera-trans (src/lib.rs): the substitution dictionary       *)
(* (EzDictItem, EzDict), the translation context (EzContext) with its      *)
(* cache, segmentation and engine round trip, and persistence.             *)
(*                                                                         *)
(* Text is modelled as Rust stores it: a String is a sequence of UTF-8     *)
(* bytes, every position is a byte offset, and slicing at an offset that   *)
(* is not a character boundary panics.                                     *)
(***************************************************************************)
EXTENDS Integers, Sequences, FiniteSets, TLC

(***************************************************************************)
(* Bounds of the model.                                                    *)
(***************************************************************************)
\* fuel of one EzDictItem::apply loop inside a handler; a loop that has not
\* ended after MaxIter iterations is reported as not terminating
MaxIter == 6
\* number of loop iterations followed by the stand-alone apply machine
MaxApplyIter == 5
\* operations performed on one context
MaxOps == 3
\* rules held by one dictionary
MaxDict == 2

(***************************************************************************)
(* Characters of the model alphabet, as their UTF-8 bytes.                 *)
(***************************************************************************)
\* 'a' U+0061 and 'b' U+0062: one byte, not translatable
A == <<97>>
B == <<98>>
\* HIRAGANA LETTER A U+3042: three bytes, translatable (is_japanese)
JA == <<227, 129, 130>>
\* HANGUL SYLLABLE GA U+AC00: three bytes, not translatable, not in Shift_JIS
KO == <<234, 176, 128>>
\* CJK IDEOGRAPH U+4EEC: three bytes, translatable, not in Shift_JIS
ZH == <<228, 187, 172>>
\* HANGUL SYLLABLE A U+C544: three bytes, what the engine answers for U+3042
KA == <<236, 149, 132>>

(***************************************************************************)
(* str primitives (byte offsets, 0-based as in the source).                *)
(***************************************************************************)
\* &s[from..to] without the boundary checks
Slice(s, from, to) == SubSeq(s, from + 1, to)

\* str::is_char_boundary
is_char_boundary(s, i) ==
  \/ i = 0
  \/ i = Len(s)
  \/ /\ i > 0
     /\ i < Len(s)
     /\ ~(s[i + 1] >= 128 /\ s[i + 1] < 192)

\* twoway::find_str: byte offset of the first occurrence, -1 for None
find_str(hay, needle) ==
  LET cand == {i \in 0..(Len(hay) - Len(needle)) :
                 Slice(hay, i, i + Len(needle)) = needle}
  IN IF cand = {} THEN -1
     ELSE CHOOSE i \in cand : \A j \in cand : i <= j

\* width in bytes of the character whose lead byte is b
char_width(b) ==
  IF b < 128 THEN 1 ELSE IF b < 224 THEN 2 ELSE IF b < 240 THEN 3 ELSE 4

\* the code point of the character that starts at byte offset pos
char_at(s, pos) ==
  LET b == s[pos + 1]
  IN IF b < 128 THEN b
     ELSE IF b < 224 THEN (b - 192) * 64 + (s[pos + 2] - 128)
     ELSE IF b < 240
       THEN (b - 224) * 4096 + (s[pos + 2] - 128) * 64 + (s[pos + 3] - 128)
     ELSE (b - 240) * 262144 + (s[pos + 2] - 128) * 4096
          + (s[pos + 3] - 128) * 64 + (s[pos + 4] - 128)

\* is_japanese: U+3000..U+30FF or U+4E00..U+9FAF
is_japanese(ch) ==
  (ch >= 12288 /\ ch <= 12543) \/ (ch >= 19968 /\ ch <= 40879)

\* byte-wise lexicographic order of str::cmp
RECURSIVE str_le(_, _)
str_le(l, r) ==
  IF l = <<>> THEN TRUE
  ELSE IF r = <<>> THEN FALSE
  ELSE IF Head(l) < Head(r) THEN TRUE
  ELSE IF Head(l) > Head(r) THEN FALSE
  ELSE str_le(Tail(l), Tail(r))

(***************************************************************************)
(* EzDictItem                                                              *)
(***************************************************************************)
\* EzDictItem::new without its assertion
EzDictItem_new_unchecked(key) == TRUE

\* the assertion of EzDictItem::new
EzDictItem_new_ok(key) == key /= <<>>

\* String::replace_range(start..end, with); panics off a char boundary
replace_range_ok(text, start, end) ==
  /\ start <= end
  /\ end <= Len(text)
  /\ is_char_boundary(text, start)
  /\ is_char_boundary(text, end)

replace_range(text, start, end, with) ==
  Slice(text, 0, start) \o with \o Slice(text, end, Len(text))

\* One evaluation of the while-let condition of EzDictItem::apply and, when
\* it matches, one execution of the loop body.  s is the loop state
\* [text, prev_pos, pc, n]; n counts the replacements performed.
\* the loop body for Some(pos); the loop ends for None (pos = -1)
apply_body(key, value, s, pos) ==
  IF pos = -1 THEN [s EXCEPT !.pc = "done"]
  ELSE IF ~replace_range_ok(s.text, pos, pos + Len(key))
  THEN [s EXCEPT !.pc = "panic"]
  ELSE [text |-> replace_range(s.text, pos, pos + Len(key), value),
        prev_pos |-> pos + Len(value),
        pc |-> "loop",
        n |-> s.n + 1]

apply_step(key, value, s) ==
  IF ~(s.prev_pos <= Len(s.text) /\ is_char_boundary(s.text, s.prev_pos))
  THEN [s EXCEPT !.pc = "panic"]
  ELSE apply_body(key, value, s,
                  find_str(Slice(s.text, s.prev_pos, Len(s.text)), key))

apply_start(text) == [text |-> text, prev_pos |-> 0, pc |-> "loop", n |-> 0]

\* EzDictItem::apply as one call: the loop run to its end.  The result has
\* pc "done" (returned), "panic", or "hung" (the loop does not end).
RECURSIVE apply_run(_, _, _, _)
apply_run(key, value, s, fuel) ==
  IF s.pc /= "loop" THEN s
  ELSE IF fuel = 0 THEN [s EXCEPT !.pc = "hung"]
  ELSE apply_run(key, value, apply_step(key, value, s), fuel - 1)

EzDictItem_apply(item, text) ==
  apply_run(item.key, item.value, apply_start(text), MaxIter)

\* a rule sequence applied in order (the for loops over before_dict and
\* after_dict); stops at the first rule that does not return
RECURSIVE apply_all(_, _)
apply_rest(items, r) ==
  IF r.pc /= "done" THEN [pc |-> r.pc, text |-> r.text]
  ELSE apply_all(items, r.text)

apply_all(items, text) ==
  IF items = <<>> THEN [pc |-> "done", text |-> text]
  ELSE apply_rest(Tail(items), EzDictItem_apply(Head(items), text))

(***************************************************************************)
(* Reference substitution: every non-overlapping occurrence of key in the  *)
(* original text, left to right, replaced by value.                        *)
(***************************************************************************)
RECURSIVE ref_replace(_, _, _)
ref_replace(text, key, value) ==
  LET pos == find_str(text, key)
  IN IF pos = -1 THEN text
     ELSE Slice(text, 0, pos) \o value
          \o ref_replace(Slice(text, pos + Len(key), Len(text)), key, value)

RECURSIVE count_occurrences(_, _)
count_occurrences(text, key) ==
  LET pos == find_str(text, key)
  IN IF pos = -1 THEN 0
     ELSE 1 + count_occurrences(Slice(text, pos + Len(key), Len(text)), key)

(***************************************************************************)
(* EzDict: [sort, before_dict, after_dict]                                 *)
(***************************************************************************)
is_sorted_by_key(items) ==
  \A i \in 1..(Len(items) - 1) : str_le(items[i].key, items[i + 1].key)

\* slice::sort_unstable_by(|l, r| l.key().cmp(r.key())): the result is
\* ordered by key; the order of rules with equal keys is not specified, so
\* every ordered permutation is a possible result
sort_unstable_by_key(items) ==
  {p \in {[i \in 1..Len(items) |-> items[f[i]]] :
            f \in Permutations(1..Len(items))} : is_sorted_by_key(p)}

\* EzDict::sort_before_dict without the sort
sort_before_dict_noop(d) == {d}

\* EzDict::sort_before_dict: the possible dictionaries after the call
sort_before_dict(d) ==
  IF ~d.sort THEN {d}
  ELSE {[d EXCEPT !.before_dict = p] : p \in sort_unstable_by_key(d.before_dict)}

\* EzDict::sort_after_dict
sort_after_dict(d) ==
  IF ~d.sort THEN {d}
  ELSE {[d EXCEPT !.after_dict = p] : p \in sort_unstable_by_key(d.after_dict)}

\* EzDict::sort
EzDict_sort(d) == UNION {sort_before_dict(d1) : d1 \in sort_after_dict(d)}

EzDict_default == [sort |-> FALSE, before_dict |-> <<>>, after_dict |-> <<>>]

(***************************************************************************)
(* Transcoding and the external engine                                     *)
(***************************************************************************)
\* SHIFT_JIS encoder, without replacement, on the model alphabet: ASCII is
\* kept, U+3042 is 0x82 0xA0, U+4EEC and the Hangul syllables are unmappable.  Encoding
\* stops at the first unmappable character; ok is EncoderResult::InputEmpty.
RECURSIVE shift_jis_encode(_, _, _)
shift_jis_encode(text, pos, out) ==
  IF pos >= Len(text) THEN [ok |-> TRUE, bytes |-> out]
  ELSE LET ch == char_at(text, pos)
           w == char_width(text[pos + 1])
       IN IF ch < 128 THEN shift_jis_encode(text, pos + w, out \o <<ch>>)
          ELSE IF ch = 12354
            THEN shift_jis_encode(text, pos + w, out \o <<130, 160>>)
          ELSE [ok |-> FALSE, bytes |-> out]

\* the C string the engine reads: the bytes before the first NUL
RECURSIVE c_str(_)
c_str(buf) ==
  IF buf = <<>> \/ Head(buf) = 0 THEN <<>> ELSE <<Head(buf)>> \o c_str(Tail(buf))

\* a successful answer of the engine, character by character: ASCII is
\* kept, Shift_JIS 0x82 0xA0 becomes EUC-KR 0xBE 0xC6 (U+C544)
RECURSIVE j2k(_)
j2k(bytes) ==
  IF bytes = <<>> THEN <<>>
  ELSE IF Head(bytes) < 128 THEN <<Head(bytes)>> \o j2k(Tail(bytes))
  ELSE IF Len(bytes) >= 2 /\ bytes[1] = 130 /\ bytes[2] = 160
    THEN <<190, 198>> \o j2k(Tail(Tail(bytes)))
  ELSE j2k(Tail(bytes))

\* the modes of one engine call: it answers, it fails (the answer of a
\* failed call is the empty C string), or it answers bytes that are not
\* EUC-KR
EngineModes == {"ok", "fail", "undecodable"}

\* lib.translate(CStr::from_bytes_with_nul_unchecked(&buf[..])).as_bytes()
lib_translate(buf, mode) ==
  IF mode = "fail" THEN <<>>
  ELSE IF mode = "undecodable" THEN j2k(c_str(buf)) \o <<255>> \o A
  ELSE j2k(c_str(buf))

\* EUC_KR decoder, without replacement: ASCII is kept, 0xBE 0xC6 is U+C544;
\* decoding stops at the first malformed sequence and keeps what it has
\* decoded (the DecoderResult is ignored by the caller)
RECURSIVE euc_kr_decode(_)
euc_kr_decode(bytes) ==
  IF bytes = <<>> THEN <<>>
  ELSE IF Head(bytes) < 128 THEN <<Head(bytes)>> \o euc_kr_decode(Tail(bytes))
  ELSE IF Len(bytes) >= 2 /\ bytes[1] = 190 /\ bytes[2] = 198
    THEN KA \o euc_kr_decode(Tail(Tail(bytes)))
  ELSE <<>>

(***************************************************************************)
(* EzContext::translate_impl and EzContext::translate                      *)
(*                                                                         *)
(* A call in progress is a record t:                                       *)
(*   pc            "run", or why the call does not return: "panic", "hung" *)
(*   cache, encode_buffer, string_buffer   the fields of the context       *)
(*   ret           the accumulator of translate                            *)
(*   translated    what the last translate_impl returned                   *)
(*   prev_pos, is_in_japanese   the locals of the segmentation loop        *)
(*   computed      the last translate_impl ran the or_insert_with closure  *)
(*   runs          the runs emitted so far: [kind, text, out, computed]    *)
(*   engine_in     the C strings handed to the engine so far               *)
(***************************************************************************)
\* the whole-string check of translate never finding the text
contains_key_never(cache, text) == FALSE

\* self.cache.contains_key(text), the whole-string check of translate
contains_key(cache, text) == text \in DOMAIN cache

\* self.cache.entry(text) is occupied: or_insert_with does not compute
entry_occupied(cache, text) == text \in DOMAIN cache

\* HashMap::insert: an existing value is replaced
insert(cache, key, value) == (key :> value) @@ cache

\* the end of the or_insert_with closure without buf.clear() and
\* str_buf.clear()
closure_end_uncleared(t, text, sent, aft) ==
  IF aft.pc /= "done"
  THEN [t EXCEPT !.pc = aft.pc, !.encode_buffer = sent \o <<0>>,
                 !.string_buffer = @ \o text,
                 !.engine_in = Append(@, sent), !.computed = TRUE]
  ELSE [t EXCEPT !.encode_buffer = sent \o <<0>>,
                 !.string_buffer = @ \o text,
                 !.engine_in = Append(@, sent), !.computed = TRUE,
                 !.cache = insert(@, text, aft.text),
                 !.translated = aft.text]

\* the end of the or_insert_with closure: sent is the C string the engine
\* was given, aft the decoded answer after the after-dictionary
closure_end(t, text, sent, aft) ==
  IF aft.pc /= "done"
  THEN [t EXCEPT !.pc = aft.pc, !.encode_buffer = <<>>, !.string_buffer = <<>>,
                 !.engine_in = Append(@, sent), !.computed = TRUE]
  ELSE [t EXCEPT !.encode_buffer = <<>>, !.string_buffer = <<>>,
                 !.engine_in = Append(@, sent), !.computed = TRUE,
                 !.cache = insert(@, text, aft.text),
                 !.translated = aft.text]

\* the or_insert_with closure from the assertion on the encoder result on;
\* buf is encode_buffer after buf.push(0)
closure_call(t, dict, text, mode, str_buf, ok, buf) ==
  IF ~ok
  THEN [t EXCEPT !.pc = "panic", !.encode_buffer = buf,
                 !.string_buffer = str_buf]
  ELSE closure_end(t, text, c_str(buf),
         apply_all(dict.after_dict, euc_kr_decode(lib_translate(buf, mode))))

\* the or_insert_with closure after str_buf.push_str(text)
closure_encode(t, dict, text, mode, str_buf, enc) ==
  closure_call(t, dict, text, mode, str_buf, enc.ok,
               t.encode_buffer \o enc.bytes \o <<0>>)

closure(t, dict, text, mode, str_buf) ==
  closure_encode(t, dict, text, mode, str_buf,
                 shift_jis_encode(str_buf, 0, <<>>))

translate_impl(t, dict, text, mode) ==
  IF entry_occupied(t.cache, text)
  THEN [t EXCEPT !.translated = t.cache[text], !.computed = FALSE]
  ELSE closure(t, dict, text, mode, t.string_buffer \o text)

\* &text[from..to] is allowed
slice_ok(text, from, to) ==
  /\ from <= to
  /\ to <= Len(text)
  /\ is_char_boundary(text, from)
  /\ is_char_boundary(text, to)

\* ret.push_str(run) for a pass-through run
push_pass(t, run) ==
  [t EXCEPT !.ret = @ \o run,
            !.runs = Append(@, [kind |-> "pass", text |-> run,
                                out |-> run, computed |-> FALSE])]

\* ret.push_str(&text[from..to])
emit_pass(t, text, from, to) ==
  IF ~slice_ok(text, from, to) THEN [t EXCEPT !.pc = "panic"]
  ELSE push_pass(t, Slice(text, from, to))

\* ret.push_str(translated), t1 being the call after translate_impl(run)
push_translated(t1, run) ==
  IF t1.pc /= "run" THEN t1
  ELSE [t1 EXCEPT !.ret = @ \o t1.translated,
                  !.runs = Append(@, [kind |-> "japanese", text |-> run,
                                      out |-> t1.translated,
                                      computed |-> t1.computed])]

\* ret.push_str(self.translate_impl(&text[from..to]))
emit_translated(t, dict, text, from, to, mode) ==
  IF ~slice_ok(text, from, to) THEN [t EXCEPT !.pc = "panic"]
  ELSE push_translated(translate_impl(t, dict, Slice(text, from, to), mode),
                       Slice(text, from, to))

\* the locals of the loop after a transition at byte offset pos
transition(t1, pos, japanese) ==
  [t1 EXCEPT !.prev_pos = pos, !.is_in_japanese = japanese]

\* the body of `for (pos, ch) in text.char_indices()` from byte offset pos
\* on, followed by the emission of the final run
RECURSIVE segment_loop(_, _, _, _, _)
segment_char(t, dict, text, pos, mode, japanese, next) ==
  IF japanese = t.is_in_japanese
  THEN segment_loop(t, dict, text, next, mode)
  ELSE segment_loop(
         transition(IF japanese
                    THEN emit_pass(t, text, t.prev_pos, pos + 1)
                    ELSE emit_translated(t, dict, text, t.prev_pos, pos + 1, mode),
                    pos, japanese),
         dict, text, next, mode)

segment_loop(t, dict, text, pos, mode) ==
  IF t.pc /= "run" THEN t
  ELSE IF pos >= Len(text)
  THEN IF ~t.is_in_japanese
       THEN emit_pass(t, text, t.prev_pos, Len(text))
       ELSE emit_translated(t, dict, text, t.prev_pos, Len(text), mode)
  ELSE segment_char(t, dict, text, pos, mode, is_japanese(char_at(text, pos)),
                    pos + char_width(text[pos + 1]))

\* the state of a call at its start
call_start(cache, encode_buffer, string_buffer) ==
  [pc |-> "run", cache |-> cache, encode_buffer |-> encode_buffer,
   string_buffer |-> string_buffer, ret |-> <<>>, translated |-> <<>>,
   computed |-> FALSE, prev_pos |-> 0, is_in_japanese |-> FALSE,
   runs |-> <<>>, engine_in |-> <<>>, seg_text |-> <<>>,
   mid_cache |-> cache, result |-> <<>>, hit |-> FALSE]

\* self.cache.insert(text.into(), ret); self.cache.get(text).unwrap()
translate_end(t2, text) ==
  IF t2.pc /= "run" THEN t2
  ELSE [t2 EXCEPT !.pc = "done", !.mid_cache = t2.cache,
                  !.cache = insert(t2.cache, text, t2.ret),
                  !.result = insert(t2.cache, text, t2.ret)[text]]

\* translate from the segmentation on; bef is the outcome of the
\* before-dictionary
translate_segment(t0, dict, text, mode, bef) ==
  IF bef.pc /= "done" THEN [t0 EXCEPT !.pc = bef.pc]
  ELSE IF bef.text = <<>> THEN [t0 EXCEPT !.pc = "panic"]
  ELSE translate_end(
         segment_loop([t0 EXCEPT !.seg_text = bef.text,
                         !.is_in_japanese = is_japanese(char_at(bef.text, 0))],
                      dict, bef.text, 0, mode),
         text)

\* the whole-string branch returning the input instead of the cached value
translate_hit_echo(t0, text) ==
  [t0 EXCEPT !.pc = "done", !.result = text, !.hit = TRUE]

\* the whole-string branch: self.cache.get(text).unwrap()
translate_hit(t0, text) ==
  [t0 EXCEPT !.pc = "done", !.result = t0.cache[text], !.hit = TRUE]

\* EzContext::translate.  The result is the call record at its end, with
\*   seg_text    the text after the before-dictionary
\*   mid_cache   the cache right before the whole-string insert
\*   result      the text returned (when pc is "done")
translate(cache, dict, encode_buffer, string_buffer, text, mode) ==
  IF contains_key(cache, text)
  THEN translate_hit(call_start(cache, encode_buffer, string_buffer), text)
  ELSE translate_segment(call_start(cache, encode_buffer, string_buffer),
                         dict, text, mode, apply_all(dict.before_dict, text))

(***************************************************************************)
(* Persistence: save_to and from_path                                      *)
(*                                                                         *)
(* A persisted file is [kind, ...] with kind "absent", "ok" or "corrupt".  *)
(* The dictionary file holds the sort flag and, for each rule collection,  *)
(* the entries of a key-to-value mapping in document order.                *)
(***************************************************************************)
EmptyCache == [k \in {} |-> <<>>]

\* dict_items::serialize: the rules written with serialize_map.  The
\* document is a mapping: an entry whose key is already present replaces
\* the earlier entry.
RECURSIVE dict_items_serialize(_, _)
dict_items_serialize(items, acc) ==
  IF items = <<>> THEN acc
  ELSE LET it == Head(items)
           kept == SelectSeq(acc, LAMBDA e : e.key /= it.key)
       IN dict_items_serialize(Tail(items), Append(kept, it))

\* dict_items::deserialize: one EzDictItem::new per entry of the mapping
dict_items_deserialize(entries) ==
  [ok |-> \A i \in 1..Len(entries) : EzDictItem_new_ok(entries[i].key),
   items |-> entries]

\* EzContext::save_to: what the two files hold after the call
save_to(c, d) ==
  [cache_file |-> [kind |-> "ok", map |-> c],
   dict_file |-> [kind |-> "ok", sort |-> d.sort,
                  before_dict |-> dict_items_serialize(d.before_dict, <<>>),
                  after_dict |-> dict_items_serialize(d.after_dict, <<>>)]]

\* from_path without cache.insert(String::new(), String::new())
seed_skipped(c0) == c0

\* cache.insert(String::new(), String::new()) on the cache just read
seed_empty_key(c0) == (<<>> :> <<>>) @@ c0

\* EzContext::from_path: the possible outcomes of construction, a context
\* [status, cache, dict] with status "ready", "failed" (Err is returned and
\* ez_init returns null) or "panicked"
from_path(dk) ==
  LET NoCtx(st) == {[status |-> st, cache |-> EmptyCache, dict |-> EzDict_default]}
      c0 == IF dk.cache_file.kind = "ok" THEN dk.cache_file.map ELSE EmptyCache
      c == seed_empty_key(c0)
      bd == dict_items_deserialize(dk.dict_file.before_dict)
      ad == dict_items_deserialize(dk.dict_file.after_dict)
      d == IF dk.dict_file.kind = "ok"
           THEN [sort |-> dk.dict_file.sort, before_dict |-> bd.items,
                 after_dict |-> ad.items]
           ELSE EzDict_default
  IN IF dk.cache_file.kind = "corrupt" THEN NoCtx("failed")
     ELSE IF dk.dict_file.kind = "corrupt" THEN NoCtx("failed")
     ELSE IF dk.dict_file.kind = "ok" /\ ~(bd.ok /\ ad.ok) THEN NoCtx("panicked")
     ELSE {[status |-> "ready", cache |-> c, dict |-> d1] : d1 \in EzDict_sort(d)}

(***************************************************************************)
(* State                                                                   *)
(***************************************************************************)
VARIABLES
  status,         \* "ready", or how the process ended: "failed" (no context
                  \* was constructed), "panicked", "hung"
  cache,          \* EzContext.cache
  dict,           \* EzContext.dict
  encode_buffer,  \* EzContext.encode_buffer
  string_buffer,  \* EzContext.string_buffer
  disk,           \* the files cache.msgpack and userdic.yml / userdic.json
  saved,          \* history: the context as it was at the last save_to
  reloaded,       \* the context from_path builds from the files on disk
  loaded,         \* history: the dictionary as construction left it
  added_before,   \* history: the rules added by ez_add_before_dict
  added_after,    \* history: the rules added by ez_add_after_dict
  last,           \* history: the last operation and, for translate, its call
  prev,           \* history: the operation before the last one
  ops,            \* number of operations performed
  ap              \* a stand-alone EzDictItem::apply call: rule, text, loop state

ctx_vars == <<status, cache, dict, encode_buffer, string_buffer, disk, saved,
              reloaded, loaded, added_before, added_after, last, prev, ops>>
vars == <<status, cache, dict, encode_buffer, string_buffer, disk, saved,
          reloaded, loaded, added_before, added_after, last, prev, ops, ap>>

(***************************************************************************)
(* The context machine: one context constructed from the files on disk,    *)
(* then the exported operations, each as one step.                         *)
(***************************************************************************)
Item(k, v) == [key |-> k, value |-> v]

\* the texts handed to ez_translate
Texts ==
  {<<>>, A, KO, JA, ZH, JA \o JA, JA \o A, A \o JA, JA \o KO, JA \o A \o A,
   A \o JA \o B}

\* the keys and values handed to ez_add_before_dict and ez_add_after_dict
RuleKeys == {<<>>, A, B}
RuleValues == {<<>>, A \o A}

AbsentFile == [kind |-> "absent", map |-> EmptyCache]
AbsentDict == [kind |-> "absent", sort |-> FALSE, before_dict |-> <<>>,
               after_dict |-> <<>>]
DictFile(srt, bd, ad) ==
  [kind |-> "ok", sort |-> srt, before_dict |-> bd, after_dict |-> ad]

\* the files found at construction
InitDisks ==
  {[cache_file |-> AbsentFile, dict_file |-> AbsentDict],
   [cache_file |-> AbsentFile,
    dict_file |-> DictFile(TRUE, <<Item(B, A), Item(A, B)>>, <<>>)],
   [cache_file |-> AbsentFile,
    dict_file |-> DictFile(FALSE, <<Item(B, A), Item(A, A \o A)>>, <<Item(A, B)>>)],
   [cache_file |-> [kind |-> "ok", map |-> (<<>> :> B) @@ (JA :> B)],
    dict_file |-> DictFile(TRUE, <<>>, <<Item(A, <<>>)>>)],
   [cache_file |-> AbsentFile,
    dict_file |-> DictFile(FALSE, <<Item(<<>>, A)>>, <<>>)],
   [cache_file |-> [kind |-> "corrupt", map |-> EmptyCache],
    dict_file |-> AbsentDict],
   [cache_file |-> AbsentFile,
    dict_file |-> [AbsentDict EXCEPT !.kind = "corrupt"]]}

no_call == [call_start(EmptyCache, <<>>, <<>>) EXCEPT !.pc = "none"]

Op(name, k, v, m, call) ==
  [op |-> name, key |-> k, value |-> v, mode |-> m, call |-> call]

no_op == Op("none", <<>>, <<>>, "none", no_call)

\* what is remembered of the operation before the last one
Summary(o) ==
  [op |-> o.op, key |-> o.key, mode |-> o.mode, pc |-> o.call.pc,
   result |-> o.call.result, engine_in |-> o.call.engine_in]

not_saved == [valid |-> FALSE, cache |-> EmptyCache, dict |-> EzDict_default]
not_reloaded ==
  [valid |-> FALSE, status |-> "none", cache |-> EmptyCache,
   dict |-> EzDict_default]

ap_idle ==
  [key |-> A, value |-> A, orig |-> <<>>,
   loop |-> [text |-> <<>>, prev_pos |-> 0, pc |-> "idle", n |-> 0]]

\* ez_init: EzContext::from_path on the files found
Init ==
  /\ disk \in InitDisks
  /\ \E c \in from_path(disk) :
       /\ status = c.status
       /\ cache = c.cache
       /\ dict = c.dict
       /\ loaded = c.dict
  /\ encode_buffer = <<>>
  /\ string_buffer = <<>>
  /\ saved = not_saved
  /\ reloaded = not_reloaded
  /\ added_before = <<>>
  /\ added_after = <<>>
  /\ last = no_op
  /\ prev = Summary(no_op)
  /\ ops = 0
  /\ ap = ap_idle

Ready == status = "ready" /\ ops < MaxOps

\* ez_translate
Returned(text, mode, t) ==
  /\ cache' = t.cache
  /\ encode_buffer' = t.encode_buffer
  /\ string_buffer' = t.string_buffer
  /\ status' = IF t.pc = "done" THEN "ready"
               ELSE IF t.pc = "panic" THEN "panicked" ELSE "hung"
  /\ last' = Op("translate", text, <<>>,
                IF t.engine_in = <<>> THEN "none" ELSE mode, t)

Translate(text, mode) ==
  /\ Ready
  /\ Returned(text, mode,
              translate(cache, dict, encode_buffer, string_buffer, text, mode))
  /\ prev' = Summary(last)
  /\ ops' = ops + 1
  /\ UNCHANGED <<dict, disk, saved, reloaded, loaded, added_before,
                 added_after, ap>>

\* ez_add_before_dict pushing to the other sequence
push_before_misplaced(d, item) == [d EXCEPT !.after_dict = Append(@, item)]

\* (*ctx).dict.before_dict.push(item)
push_before(d, item) == [d EXCEPT !.before_dict = Append(@, item)]

\* (*ctx).dict.after_dict.push(item)
push_after(d, item) == [d EXCEPT !.after_dict = Append(@, item)]

\* ez_add_before_dict
AddBeforeDict(key, value) ==
  /\ Ready
  /\ Len(dict.before_dict) < MaxDict
  /\ IF ~EzDictItem_new_ok(key)
     THEN /\ status' = "panicked"
          /\ UNCHANGED <<dict, added_before>>
     ELSE /\ dict' \in sort_before_dict(push_before(dict, Item(key, value)))
          /\ added_before' = Append(added_before, Item(key, value))
          /\ UNCHANGED status
  /\ last' = Op("add_before", key, value, "none", no_call)
  /\ prev' = Summary(last)
  /\ ops' = ops + 1
  /\ UNCHANGED <<cache, encode_buffer, string_buffer, disk, saved, reloaded,
                 loaded, added_after, ap>>

\* ez_add_after_dict
AddAfterDict(key, value) ==
  /\ Ready
  /\ Len(dict.after_dict) < MaxDict
  /\ IF ~EzDictItem_new_ok(key)
     THEN /\ status' = "panicked"
          /\ UNCHANGED <<dict, added_after>>
     ELSE /\ dict' \in sort_after_dict(push_after(dict, Item(key, value)))
          /\ added_after' = Append(added_after, Item(key, value))
          /\ UNCHANGED status
  /\ last' = Op("add_after", key, value, "none", no_call)
  /\ prev' = Summary(last)
  /\ ops' = ops + 1
  /\ UNCHANGED <<cache, encode_buffer, string_buffer, disk, saved, reloaded,
                 loaded, added_before, ap>>

\* ez_save: EzContext::save_to
Save ==
  /\ Ready
  /\ disk' = save_to(cache, dict)
  /\ saved' = [valid |-> TRUE, cache |-> cache, dict |-> dict]
  /\ reloaded' = not_reloaded
  /\ last' = Op("save", <<>>, <<>>, "none", no_call)
  /\ prev' = Summary(last)
  /\ ops' = ops + 1
  /\ UNCHANGED <<status, cache, dict, encode_buffer, string_buffer, loaded,
                 added_before, added_after, ap>>

\* EzContext::from_path on the files as they are now: a fresh load
FromPath ==
  /\ Ready
  /\ ~reloaded.valid
  /\ \E c \in from_path(disk) :
       reloaded' = [valid |-> TRUE, status |-> c.status, cache |-> c.cache,
                    dict |-> c.dict]
  /\ last' = Op("from_path", <<>>, <<>>, "none", no_call)
  /\ prev' = Summary(last)
  /\ ops' = ops + 1
  /\ UNCHANGED <<status, cache, dict, encode_buffer, string_buffer, disk,
                 saved, loaded, added_before, added_after, ap>>

Next ==
  \/ \E text \in Texts, mode \in EngineModes : Translate(text, mode)
  \/ \E key \in RuleKeys, value \in RuleValues : AddBeforeDict(key, value)
  \/ \E key \in RuleKeys, value \in RuleValues : AddAfterDict(key, value)
  \/ Save
  \/ FromPath

Spec == Init /\ [][Next]_vars

(***************************************************************************)
(* Claims about the context (checked under Spec)                           *)
(***************************************************************************)
RECURSIVE concat_runs(_)
concat_runs(runs) ==
  IF runs = <<>> THEN <<>> ELSE Head(runs).text \o concat_runs(Tail(runs))

\* the last operation is a translate call that went through segmentation
Segmented ==
  last.op = "translate" /\ ~last.call.hit /\ last.call.seg_text /= <<>>

\* C1: segmentation is a lossless partition: the runs a translate call
\* emits, concatenated in emission order, equal the text that was segmented.
C1_LosslessPartition ==
  (Segmented /\ last.call.pc = "done")
    => concat_runs(last.call.runs) = last.call.seg_text

no_duplicates(q) == \A i, j \in 1..Len(q) : q[i] = q[j] => i = j

\* two translate calls in a row with the same text
TwiceInARow ==
  /\ last.op = "translate"
  /\ prev.op = "translate"
  /\ last.key = prev.key

\* C2: cache idempotence: of two translate calls in a row with the same
\* text, the second invokes the engine zero times and returns the text the
\* first returned, and over both calls the engine is invoked at most once
\* per distinct run.
C2_CacheIdempotence ==
  TwiceInARow =>
    /\ last.call.pc = "done"
    /\ last.call.engine_in = <<>>
    /\ last.call.result = prev.result
    /\ no_duplicates(prev.engine_in \o last.call.engine_in)

C2_Witness ==
  /\ TwiceInARow
  /\ prev.engine_in /= <<>>
  /\ last.call.pc = "done"
  /\ last.call.result /= <<>>

\* C3: cache entries are immutable once present: no step removes a key or
\* changes its value, and the whole-string insert at the end of translate
\* does not replace a value stored earlier in the same call.
C3_CacheEntriesImmutable ==
  [][/\ \A k \in DOMAIN cache : k \in DOMAIN cache' /\ cache'[k] = cache[k]
     /\ \A k \in DOMAIN last'.call.mid_cache :
          k \in DOMAIN cache' /\ cache'[k] = last'.call.mid_cache[k]]_vars

\* the maximal runs of uniform classification of a text, in order
RECURSIVE maximal_runs(_, _, _)
maximal_runs(text, pos, acc) ==
  IF pos >= Len(text) THEN acc
  ELSE LET w == char_width(text[pos + 1])
           ch == Slice(text, pos, pos + w)
           k == IF is_japanese(char_at(text, pos)) THEN "japanese" ELSE "pass"
       IN IF acc /= <<>> /\ acc[Len(acc)].kind = k
          THEN maximal_runs(text, pos + w,
                 [acc EXCEPT ![Len(acc)].text = @ \o ch])
          ELSE maximal_runs(text, pos + w,
                 Append(acc, [kind |-> k, text |-> ch]))

\* the text that was segmented is pass-through, translatable, pass-through
PassJapanesePass ==
  /\ Segmented
  /\ LET m == maximal_runs(last.call.seg_text, 0, <<>>)
     IN Len(m) = 3 /\ m[1].kind = "pass"

\* C6: for a text of the shape pass-through, translatable, pass-through
\* translate returns, emits exactly these three runs, hands only the middle
\* run to the engine, and returns the first run, the translation of the
\* middle run and the last run concatenated.
C6_PipelineOrder ==
  PassJapanesePass =>
    LET m == maximal_runs(last.call.seg_text, 0, <<>>)
        r == last.call.runs
    IN /\ last.call.pc = "done"
       /\ Len(r) = 3
       /\ \A i \in 1..3 : r[i].kind = m[i].kind /\ r[i].text = m[i].text
       /\ last.call.result = m[1].text \o r[2].out \o m[3].text

\* C7: when the engine call for a run fails, translate still returns and
\* the text the run contributes is the run's own text.
C7_EngineFailureFallback ==
  (last.op = "translate" /\ last.mode = "fail") =>
    /\ last.call.pc = "done"
    /\ \A i \in 1..Len(last.call.runs) :
         last.call.runs[i].computed
           => last.call.runs[i].out = last.call.runs[i].text

no_empty_pattern(items) == \A i \in 1..Len(items) : items[i].key /= <<>>

EmptyKeyAttempt(o) == o.op \in {"add_before", "add_after"} /\ o.key = <<>>

\* C8: an attempt to add a rule with an empty pattern fails and leaves both
\* rule sequences as they were, and no dictionary ever holds a rule with an
\* empty pattern.
C8_EmptyPatternRejected ==
  /\ [](/\ no_empty_pattern(dict.before_dict)
        /\ no_empty_pattern(dict.after_dict)
        /\ no_empty_pattern(reloaded.dict.before_dict)
        /\ no_empty_pattern(reloaded.dict.after_dict))
  /\ [][EmptyKeyAttempt(last') => (dict' = dict /\ status' /= "ready")]_vars

C8_Witness == EmptyKeyAttempt(last) /\ status = "panicked"

\* C9: with the sort flag true both rule sequences are non-decreasing by
\* pattern after construction and after every add; with the flag false each
\* sequence is the loaded rules followed by the added rules in order.
C9_SortedDictionary ==
  /\ dict.sort => /\ is_sorted_by_key(dict.before_dict)
                  /\ is_sorted_by_key(dict.after_dict)
  /\ ~dict.sort => /\ dict.before_dict = loaded.before_dict \o added_before
                   /\ dict.after_dict = loaded.after_dict \o added_after

C9_Witness ==
  /\ dict.sort
  /\ added_before /= <<>>
  /\ dict.before_dict /= loaded.before_dict \o added_before
  /\ \E i, j \in 1..Len(dict.before_dict) :
       dict.before_dict[i].key /= dict.before_dict[j].key

\* C10: save_to followed by from_path on the same files succeeds and yields
\* the same cache, the same sort flag and the same rules in the same order.
C10_RoundTrip ==
  (saved.valid /\ reloaded.valid) =>
    /\ reloaded.status = "ready"
    /\ reloaded.cache = saved.cache
    /\ reloaded.dict = saved.dict

\* a side file found at construction exists but cannot be read or parsed
DamagedSideFile ==
  /\ ops = 0
  /\ \/ disk.cache_file.kind = "corrupt"
     \/ disk.dict_file.kind = "corrupt"

\* C11: a damaged cache or dictionary file degrades to "start empty":
\* construction still yields a usable context; a damaged cache file gives
\* the cache holding only the empty key, a damaged dictionary file gives the
\* empty dictionary.
C11_DamagedFilesStartEmpty ==
  DamagedSideFile =>
    /\ status = "ready"
    /\ disk.cache_file.kind = "corrupt" => cache = seed_empty_key(EmptyCache)
    /\ disk.dict_file.kind = "corrupt" => dict = EzDict_default

\* this step is a translate call of a text that is a cache key
TranslateOfCachedKey ==
  /\ ops' = ops + 1
  /\ last'.op = "translate"
  /\ last'.key \in DOMAIN cache

\* C12: when text is already a cache key, translate returns the value
\* cached for it, invokes the engine zero times, applies no dictionary rule
\* and emits no run, and leaves the cache, the dictionaries and both
\* scratch buffers unchanged.
C12_WholeStringShortCircuit ==
  [][TranslateOfCachedKey =>
       /\ last'.call.pc = "done"
       /\ last'.call.result = cache[last'.key]
       /\ last'.call.engine_in = <<>>
       /\ last'.call.seg_text = <<>>
       /\ last'.call.runs = <<>>
       /\ status' = "ready"
       /\ UNCHANGED <<cache, dict, encode_buffer, string_buffer>>]_vars

C12_Witness ==
  /\ last.op = "translate"
  /\ last.call.hit
  /\ last.call.result /= last.key
  /\ \E i \in 1..Len(dict.before_dict) :
       find_str(last.key, dict.before_dict[i].key) /= -1

\* the runs of the last call whose translation the engine computed
computed_runs(call) ==
  {i \in 1..Len(call.runs) : call.runs[i].computed}

\* C13: a run that cannot be encoded for the engine stops the call: the
\* engine is not called for it and no cache entry is stored for it; and a
\* reply of the engine that cannot be decoded is not stored, cut short, as
\* the translation of the run.
C13_TranscodingFailureIsHardError ==
  last.op = "translate" =>
    /\ (last.call.pc = "panic" /\ last.call.string_buffer /= <<>>) =>
         /\ ~shift_jis_encode(last.call.string_buffer, 0, <<>>).ok
         /\ last.call.string_buffer \notin DOMAIN last.call.cache
         /\ Len(last.call.engine_in) = Cardinality(computed_runs(last.call))
    /\ (last.call.pc = "done" /\ last.mode = "undecodable") =>
         \A i \in computed_runs(last.call) :
           last.call.runs[i].text \notin DOMAIN last.call.mid_cache

\* the cache maps the empty string to the empty string
empty_key_pinned(c) == <<>> \in DOMAIN c /\ c[<<>>] = <<>>

\* C14: in every state of a constructed context, whatever the persisted
\* cache held and whatever was translated or added since, the cache maps ""
\* to ""; translate("") returns "" without an engine call; and no run
\* handed to translate_impl is empty.
C14_EmptyKeyPinned ==
  /\ status = "ready" => empty_key_pinned(cache)
  /\ (reloaded.valid /\ reloaded.status = "ready") =>
       empty_key_pinned(reloaded.cache)
  /\ (last.op = "translate" /\ last.key = <<>>) =>
       /\ last.call.pc = "done"
       /\ last.call.result = <<>>
       /\ last.call.engine_in = <<>>
  /\ last.op = "translate" =>
       /\ \A i \in 1..Len(last.call.runs) : last.call.runs[i].text /= <<>>
       /\ \A i \in 1..Len(last.call.engine_in) : last.call.engine_in[i] /= <<>>

C14_Witness ==
  /\ disk.cache_file.kind = "ok"
  /\ ~empty_key_pinned(disk.cache_file.map)
  /\ prev.op \in {"add_before", "add_after", "translate"}
  /\ last.op = "translate"
  /\ last.key = <<>>
  /\ last.call.hit

\* the fully processed translations of run r under dictionaries d: the
\* after-dictionary applied to decode(engine(encode(r))), for every answer
\* the engine can give
run_translations(d, r) ==
  {apply_all(d.after_dict,
             euc_kr_decode(lib_translate(
               shift_jis_encode(r, 0, <<>>).bytes \o <<0>>, m))).text :
     m \in EngineModes}

\* the context started from an absent cache file and no rule was added
FreshCacheFixedDict ==
  /\ ~saved.valid
  /\ disk.cache_file.kind = "absent"
  /\ added_before = <<>>
  /\ added_after = <<>>

\* C15: starting from an empty cache and with the dictionaries unchanged,
\* whenever translate finds a translatable run r in the cache, the value it
\* takes is the fully processed translation of r, never a value stored
\* under the same text as a whole-input key.
C15_RunCacheValues ==
  (FreshCacheFixedDict /\ last.op = "translate") =>
    \A i \in 1..Len(last.call.runs) :
      (last.call.runs[i].kind = "japanese" /\ ~last.call.runs[i].computed) =>
        last.call.runs[i].out \in run_translations(dict, last.call.runs[i].text)

\* the last operation is a translate call that reached the segmentation
\* with text seg: the input was not a cache key and the before-dictionary
\* turned it into seg
SegmentationOf(seg) ==
  /\ last.op = "translate"
  /\ ~last.call.hit
  /\ apply_all(dict.before_dict, last.key) = [pc |-> "done", text |-> seg]

\* C16: when the text reaching the segmentation is empty, translate emits
\* no run, does not call the engine and returns the empty text without
\* failing; when it is a single character, exactly one run is emitted.
C16_EmptyAndSingleCharacter ==
  /\ SegmentationOf(<<>>) =>
       /\ last.call.pc = "done"
       /\ last.call.runs = <<>>
       /\ last.call.engine_in = <<>>
       /\ last.call.result = <<>>
  /\ \A c \in {A, B, JA, KO, ZH} :
       (SegmentationOf(c) /\ last.call.pc = "done") =>
         Len(last.call.runs) = 1

\* the rules of items with pattern k, in the order they have in items
with_pattern(items, k) == SelectSeq(items, LAMBDA it : it.key = k)

\* the rules with equal patterns are in the order of the sequence added
in_insertion_order(items, added) ==
  \A k \in RuleKeys : with_pattern(items, k) = with_pattern(added, k)

\* C17: with the sort flag true, after any sequence of add-rule
\* operations the rules of one dictionary that have equal patterns are in
\* the order in which they were added.
C17_StableDuplicateOrder ==
  (status = "ready" /\ dict.sort) =>
    /\ in_insertion_order(dict.before_dict, loaded.before_dict \o added_before)
    /\ in_insertion_order(dict.after_dict, loaded.after_dict \o added_after)

\* the Shift_JIS bytes of the runs the engine translated, in call order
encoded_computed_runs(call) ==
  [i \in 1..Len(SelectSeq(call.runs, LAMBDA r : r.computed)) |->
     shift_jis_encode(SelectSeq(call.runs, LAMBDA r : r.computed)[i].text,
                      0, <<>>).bytes]

\* C18: whenever no engine round-trip is in progress (before and after
\* every translate call that returns) encode_buffer and string_buffer are
\* empty, and the bytes the engine was given for a run are the encoding of
\* that run up to the NUL, with nothing of an earlier run.
C18_ScratchBuffersEmpty ==
  /\ status = "ready" => (encode_buffer = <<>> /\ string_buffer = <<>>)
  /\ (last.op = "translate" /\ last.call.pc = "done") =>
       /\ last.call.encode_buffer = <<>>
       /\ last.call.string_buffer = <<>>
       /\ last.call.engine_in = encoded_computed_runs(last.call)

C18_Witness ==
  /\ status = "ready"
  /\ last.op = "translate"
  /\ prev.op = "translate"
  /\ prev.engine_in /= <<>>
  /\ last.call.engine_in /= <<>>
  /\ last.call.engine_in /= prev.engine_in

\* translate(text) on a context just constructed from the persisted
\* files, with dictionaries d and an engine that answers
fresh_translate(files, d, text) ==
  translate((CHOOSE c \in from_path(files) : TRUE).cache, d, <<>>, <<>>,
            text, "ok")

\* the persisted files and the dictionaries are the ones the context was
\* constructed from, the engine answered every call, and at most one
\* translate call came before the last one
OneEarlierTranslate ==
  /\ ops <= 2
  /\ ~saved.valid
  /\ added_before = <<>>
  /\ added_after = <<>>
  /\ last.op = "translate"
  /\ last.mode \in {"ok", "none"}
  /\ prev.op \in {"none", "translate"}
  /\ prev.mode \in {"ok", "none"}

\* C19: with fixed dictionaries and an engine that answers
\* deterministically, translate(text) returns the same text whatever was
\* translated before: the text a context just constructed from the same
\* persisted state returns.
C19_HistoryIndependence ==
  (OneEarlierTranslate /\ last.call.pc = "done") =>
    /\ fresh_translate(disk, dict, last.key).pc = "done"
    /\ fresh_translate(disk, dict, last.key).result = last.call.result

\* how often rule it is in items
count_item(items, it) == Len(SelectSeq(items, LAMBDA x : x = it))

\* after holds the rules of before and one more rule it
one_rule_more(before, after, it) ==
  /\ Len(after) = Len(before) + 1
  /\ \A i \in 1..Len(after) :
       count_item(after, after[i]) =
         count_item(before, after[i]) + (IF after[i] = it THEN 1 ELSE 0)

\* this step is an add-rule call that returns
AddStep(name) ==
  /\ ops' = ops + 1
  /\ last'.op = name
  /\ status' = "ready"

\* this step translates again the input translated right before the last
\* rule was added
TranslateAgainAfterAdd ==
  /\ ops' = ops + 1
  /\ last.op \in {"add_before", "add_after"}
  /\ prev.op = "translate"
  /\ prev.pc = "done"
  /\ last'.op = "translate"
  /\ last'.key = prev.key

\* C20: adding a rule changes only the targeted rule sequence: the other
\* sequence, the sort flag, the scratch buffers and every cache entry are
\* unchanged; so an input translated before the addition translates
\* afterwards to the same text, without an engine call.
C20_AddRuleLeavesCache ==
  [][/\ AddStep("add_before") =>
          /\ UNCHANGED <<cache, encode_buffer, string_buffer>>
          /\ dict'.after_dict = dict.after_dict
          /\ dict'.sort = dict.sort
          /\ one_rule_more(dict.before_dict, dict'.before_dict,
                           Item(last'.key, last'.value))
     /\ AddStep("add_after") =>
          /\ UNCHANGED <<cache, encode_buffer, string_buffer>>
          /\ dict'.before_dict = dict.before_dict
          /\ dict'.sort = dict.sort
          /\ one_rule_more(dict.after_dict, dict'.after_dict,
                           Item(last'.key, last'.value))
     /\ TranslateAgainAfterAdd =>
          /\ last'.call.pc = "done"
          /\ last'.call.result = prev.result
          /\ last'.call.engine_in = <<>>]_vars

C20_Witness ==
  /\ ops = 3
  /\ disk.cache_file.kind = "absent"
  /\ last.op = "translate"
  /\ last.call.hit
  /\ prev.op = "add_before"
  /\ prev.key /= <<>>
  /\ find_str(last.key, prev.key) /= -1
  /\ apply_all(dict.before_dict, last.key).text /= last.key

(***************************************************************************)
(* The stand-alone apply machine: one rule applied to one text, one loop   *)
(* iteration per step.                                                     *)
(***************************************************************************)
ApplyKeys == {A, A \o B, JA}
ApplyValues == {<<>>, A, B, A \o A, A \o B, JA}
ApplyTexts ==
  {A, A \o A, A \o B, B \o A, A \o B \o A, A \o B \o A \o B,
   B \o A \o A, A \o A \o A, JA \o A, JA \o A \o A, A \o JA \o A,
   B \o B, JA \o JA, B \o JA \o B \o JA}

InitApply ==
  /\ ap \in {[key |-> k, value |-> v, orig |-> t, loop |-> apply_start(t)] :
              k \in ApplyKeys, v \in ApplyValues, t \in ApplyTexts}
  /\ status = "ready"
  /\ cache = insert(EmptyCache, <<>>, <<>>)
  /\ dict = EzDict_default
  /\ loaded = EzDict_default
  /\ disk = [cache_file |-> AbsentFile, dict_file |-> AbsentDict]
  /\ encode_buffer = <<>>
  /\ string_buffer = <<>>
  /\ saved = not_saved
  /\ reloaded = not_reloaded
  /\ added_before = <<>>
  /\ added_after = <<>>
  /\ last = no_op
  /\ prev = Summary(no_op)
  /\ ops = 0

ApplyIter ==
  /\ ap.loop.pc = "loop"
  /\ ap.loop.n < MaxApplyIter
  /\ ap' = [ap EXCEPT !.loop = apply_step(ap.key, ap.value, ap.loop)]
  /\ UNCHANGED ctx_vars

NextApply == ApplyIter

SpecApply == InitApply /\ [][NextApply]_vars

(***************************************************************************)
(* Claims about EzDictItem::apply (checked under SpecApply)                *)
(***************************************************************************)
\* C4: apply terminates having performed exactly one replacement per
\* original non-overlapping occurrence of the pattern: it never performs
\* more replacements than the original text has occurrences, and when it
\* returns it has performed exactly that many.
C4_OneReplacementPerOccurrence ==
  /\ ap.loop.n <= count_occurrences(ap.orig, ap.key)
  /\ ap.loop.pc = "done" => ap.loop.n = count_occurrences(ap.orig, ap.key)

\* C5: the text left by apply equals the reference result of replacing,
\* left to right, every non-overlapping occurrence of the pattern in the
\* original text, and apply does not fail on the way.
C5_ApplyEqualsReference ==
  /\ ap.loop.pc /= "panic"
  /\ ap.loop.pc = "done" => ap.loop.text = ref_replace(ap.orig, ap.key, ap.value)

====
